---- MODULE Spec2Model ----
(***************************************************************************)
(* Response ledger of the forms backend: draft save / draft delete /       *)
(* submit handlers of routes/responseRoutes.js over the Response           *)
(* collection, together with the admin operations on forms and responses   *)
(* that the handlers read, and the dashboard routes (single-question       *)
(* analysis, full analysis, export) that aggregate the collection.  Every  *)
(* `await` of a ledger handler is one step of the request, so that         *)
(* concurrent requests interleave exactly where the event loop lets them;  *)
(* a dashboard route only reads, and is one step.  A document carries the  *)
(* fields the handlers' queries and writes touch; a form's title,          *)
(* description and createdBy, which no handler of the ledger reads, are    *)
(* left out, and the requesting analyst of a dashboard route is taken to   *)
(* be a live admin or teacher_analyst.  The listing routes of the          *)
(* analysts, the legacy single-active form routes of routes/formRoutes.js  *)
(* and forgot-password of routes/authRoutes.js are modelled the same way,  *)
(* each over the collection it reads and writes.                           *)
(***************************************************************************)
EXTENDS Integers, Sequences, FiniteSets, TLC

\* ------------------------------------------------------------------ bounds
MaxResponses == 3
MaxTime == 2
TicksPerDay == 2
MaxForms == 3
MaxDocs == 4

\* ------------------------------------------------------------- identifiers
Users == {"u1", "u2"}
Forms == {"f1"}
Procs == {1, 2}
SeqProcs == {1}
ConcUsers == {"u1"}
DiaryUsers == {"u1"}
FormUsers == {"u1"}
FaultUsers == {"u1"}

\* ids accepted by mongoose.Types.ObjectId.isValid
ValidObjectIds == {"f1", "f9", "q1", "q2", "q3"}
FormIdInputs == {"f1", "f9", "bad"}
FormTypes == {"form", "diary"}
AssignedAtCreate == {"u1"}

QuestionTitle == [q \in {"q1", "q2", "q3"} |-> IF q = "q1" THEN "Title1" ELSE IF q = "q2" THEN "Title2" ELSE "Title3"]

NoDate == -1

\* request bodies: `answers` of req.body
Ans(q, v) == [questionId |-> q, answer |-> v]
Body(k, items) == [kind |-> k, items |-> items]
ValidBodies == {Body("array", <<>>), Body("array", <<Ans("q1", "a")>>), Body("array", <<Ans("q1", "b")>>), Body("array", <<Ans("q2", "a")>>), Body("array", <<Ans("q1", "a"), Ans("q2", "a")>>)}
BadBodies == {Body("nonarray", <<>>), Body("array", <<Ans("bad", "a")>>), Body("array", <<Ans("q3", "a")>>), Body("array", <<Ans("q1", "a"), Ans("q1", "b")>>), Body("array", <<Ans("q1", "")>>)}
Bodies == ValidBodies \cup BadBodies
LedgerBodies == {Body("array", <<>>), Body("array", <<Ans("q1", "a")>>), Body("array", <<Ans("q1", "b")>>)}
FaultBodies == {Body("array", <<Ans("q1", "a")>>)}
DiaryBodies == {Body("array", <<>>), Body("array", <<Ans("q1", "a")>>)}
ConcBodies == {Body("array", <<Ans("q1", "a")>>), Body("array", <<Ans("q1", "b")>>)}

NoBody == Body("missing", <<>>)
Ops == {"submit", "saveDraft", "deleteDraft"}

Res(st, err, det) == [status |-> st, error |-> err, detail |-> det]
NoRes == Res(0, "", "")
NoReq == [op |-> "none", userId |-> "", formId |-> "", answers |-> NoBody]
NoForm == [id |-> "", type |-> "", isActive |-> FALSE, deleted |-> FALSE, assignedUsers |-> {}, questions |-> <<>>]
\* no dashboard answer has been produced yet
NoView == [op |-> "none"]
NoDoc == [formId |-> "", userId |-> "", answers |-> <<>>, isDraft |-> FALSE, deleted |-> FALSE, submittedAt |-> NoDate, lastModified |-> NoDate]

VARIABLES now, users, forms, responses, pc, req, formSnap, today, todayEnd, draftRef, doc, result, pre, view

vars == <<now, users, forms, responses, pc, req, formSnap, today, todayEnd, draftRef, doc, result, pre, view>>
locals == <<formSnap, today, todayEnd, draftRef, doc>>
catalog == <<users, forms>>

\* --------------------------------------------------------------- the store
Min(S) == CHOOSE i \in S : \A j \in S : i <= j

\* Model.findOne: the first document in natural order matching the filter,
\* 0 standing for null
FirstMatch(S) == IF S = {} THEN 0 ELSE Min(S)

IsDraftOf(r, f, u) == r.formId = f /\ r.userId = u /\ ~r.deleted /\ r.isDraft
IsFinalOf(r, f, u) == r.formId = f /\ r.userId = u /\ ~r.deleted /\ ~r.isDraft

DraftIdx(store, f, u) == {i \in 1..Len(store) : IsDraftOf(store[i], f, u)}
FinalIdx(store, f, u) == {i \in 1..Len(store) : IsFinalOf(store[i], f, u)}

\* Date.setHours(0,0,0,0) and Date.setHours(23,59,59,999) on the local day
DayStart(t) == t - (t % TicksPerDay)
DayEnd(t) == DayStart(t) + TicksPerDay - 1

\* new Response({...}): schema defaults of models/response.js
NewResponse(f, u, answers, isDraft, t) == [formId |-> f, userId |-> u, answers |-> answers, isDraft |-> isDraft, deleted |-> FALSE, submittedAt |-> t, lastModified |-> t]

\* variant: the insert is an upsert keyed on (formId, userId, isDraft)
UpsertDoc(store, d) ==
  LET same == {i \in 1..Len(store) : store[i].formId = d.formId /\ store[i].userId = d.userId /\ store[i].isDraft = d.isDraft /\ ~store[i].deleted}
  IN IF same = {} THEN Append(store, d) ELSE [store EXCEPT ![Min(same)] = d]

\* doc.save() of a new document
InsertDoc(store, d) == Append(store, d)

\* variant: the drafts are left as they are
KeepDrafts(store, f, u) == store

\* Response.updateMany({formId, userId, isDraft: true, deleted: false}, {$set: {deleted: true}})
SoftDeleteDrafts(store, f, u) == [i \in 1..Len(store) |-> IF IsDraftOf(store[i], f, u) THEN [store[i] EXCEPT !.deleted = TRUE] ELSE store[i]]

\* GET /draft/:formId
GetDraft(store, f, u) == LET i == FirstMatch(DraftIdx(store, f, u)) IN IF i = 0 THEN NoDoc ELSE store[i]

\* ------------------------------------------------------------- validation
FormQuestionIds(form) == {form.questions[i].questionId : i \in 1..Len(form.questions)}
AnsweredIds(items) == {items[i].questionId : i \in 1..Len(items)}
IsEmptyAnswer(v) == v = ""

\* variant: the required flag is not consulted
FirstMissingAny(form, items) == FirstMatch({i \in 1..Len(form.questions) : form.questions[i].questionId \notin AnsweredIds(items)})

\* form.questions.filter(q => q.required), then the first one, in the form's
\* order, that answeredQuestionIds does not include (0 when there is none)
FirstMissingRequired(form, items) == FirstMatch({i \in 1..Len(form.questions) : form.questions[i].required /\ form.questions[i].questionId \notin AnsweredIds(items)})

\* variant: the required questions are checked before the duplicates
ValidateSubmitRequiredFirst(form, body) ==
  LET items == body.items
      miss == FirstMissingRequired(form, IF body.kind = "array" THEN items ELSE <<>>)
  IN IF body.kind # "array" THEN Res(400, "format", "")
     ELSE IF \E i \in 1..Len(items) : items[i].questionId \notin ValidObjectIds THEN Res(400, "invalid_ids", "")
     ELSE IF \E i \in 1..Len(items) : items[i].questionId \notin FormQuestionIds(form) THEN Res(400, "not_in_form", "")
     ELSE IF miss # 0 THEN Res(400, "required", QuestionTitle[form.questions[miss].questionId])
     ELSE IF Cardinality(AnsweredIds(items)) # Len(items) THEN Res(400, "duplicate", "")
     ELSE IF \E i \in 1..Len(items) : IsEmptyAnswer(items[i].answer) THEN Res(400, "empty", "")
     ELSE NoRes

\* the synchronous checks of POST / between the diary query and the
\* existing-response query; Res(0, ...) stands for "all checks passed"
ValidateSubmit(form, body) ==
  LET items == body.items
      miss == FirstMissingRequired(form, IF body.kind = "array" THEN items ELSE <<>>)
  IN IF body.kind # "array" THEN Res(400, "format", "")
     ELSE IF \E i \in 1..Len(items) : items[i].questionId \notin ValidObjectIds THEN Res(400, "invalid_ids", "")
     ELSE IF \E i \in 1..Len(items) : items[i].questionId \notin FormQuestionIds(form) THEN Res(400, "not_in_form", "")
     ELSE IF Cardinality(AnsweredIds(items)) # Len(items) THEN Res(400, "duplicate", "")
     ELSE IF \E i \in 1..Len(items) : IsEmptyAnswer(items[i].answer) THEN Res(400, "empty", "")
     ELSE IF miss # 0 THEN Res(400, "required", QuestionTitle[form.questions[miss].questionId])
     ELSE NoRes

\* variant: a draft must answer the required questions
ValidateDraftStrict(form, body) ==
  LET items == body.items
      miss == FirstMissingRequired(form, IF body.kind = "array" THEN items ELSE <<>>)
  IN IF body.kind = "nonarray" THEN Res(400, "format", "")
     ELSE IF body.kind = "missing" THEN NoRes
     ELSE IF \E i \in 1..Len(items) : items[i].questionId \notin ValidObjectIds THEN Res(400, "invalid_ids", "")
     ELSE IF \E i \in 1..Len(items) : items[i].questionId \notin FormQuestionIds(form) THEN Res(400, "not_in_form", "")
     ELSE IF miss # 0 THEN Res(400, "required", QuestionTitle[form.questions[miss].questionId])
     ELSE NoRes

\* the synchronous checks of POST /draft: a missing body is accepted, and
\* neither duplicates, empty values nor required questions are checked
ValidateDraft(form, body) ==
  LET items == body.items
  IN IF body.kind = "nonarray" THEN Res(400, "format", "")
     ELSE IF body.kind = "missing" THEN NoRes
     ELSE IF \E i \in 1..Len(items) : items[i].questionId \notin ValidObjectIds THEN Res(400, "invalid_ids", "")
     ELSE IF \E i \in 1..Len(items) : items[i].questionId \notin FormQuestionIds(form) THEN Res(400, "not_in_form", "")
     ELSE NoRes

\* answers || []
DraftAnswers(body) == IF body.kind = "array" THEN body.items ELSE <<>>

\* ------------------------------------------------------------------- state
TypeOK ==
  /\ now \in 0..MaxTime
  /\ Len(responses) <= MaxResponses \/ Len(responses) <= MaxDocs
  /\ view.op \in {"none", "analysis", "fullAnalysis", "export", "canRespond", "analystsAll", "respondents", "responses"}
  /\ \A p \in Procs : pc[p] \in {"idle", "done", "s_user", "s_form", "s_today", "s_exist", "s_upd", "s_save", "d_user", "d_form", "d_find", "d_update", "d_create", "x_user", "x_upd"}

\* a form created with assignedUsers: [u1]
InitForm(f, t) == [id |-> f, type |-> t, isActive |-> TRUE, deleted |-> FALSE, assignedUsers |-> AssignedAtCreate, questions |-> <<[questionId |-> "q1", required |-> TRUE], [questionId |-> "q2", required |-> FALSE]>>]

Init ==
  /\ now = 0
  /\ users = [u \in Users |-> [deleted |-> FALSE]]
  /\ \E t \in FormTypes : forms = [f \in Forms |-> InitForm(f, t)]
  /\ responses = <<>>
  /\ pc = [p \in Procs |-> "idle"]
  /\ req = [p \in Procs |-> NoReq]
  /\ formSnap = [p \in Procs |-> NoForm]
  /\ today = [p \in Procs |-> NoDate]
  /\ todayEnd = [p \in Procs |-> NoDate]
  /\ draftRef = [p \in Procs |-> 0]
  /\ doc = [p \in Procs |-> NoDoc]
  /\ result = [p \in Procs |-> NoRes]
  /\ pre = [p \in Procs |-> <<>>]
  /\ view = NoView

InFlight(p) == pc[p] \notin {"idle", "done"}
Inserting == {p \in Procs : InFlight(p) /\ req[p].op \in {"submit", "saveDraft"}}

\* res.status(...).json(...): the handler returns and its locals die
Finish(p, r) ==
  /\ pc' = [pc EXCEPT ![p] = "done"]
  /\ result' = [result EXCEPT ![p] = r]
  /\ formSnap' = [formSnap EXCEPT ![p] = NoForm]
  /\ today' = [today EXCEPT ![p] = NoDate]
  /\ todayEnd' = [todayEnd EXCEPT ![p] = NoDate]
  /\ draftRef' = [draftRef EXCEPT ![p] = 0]
  /\ doc' = [doc EXCEPT ![p] = NoDoc]

\* the handler suspends at its next await
Goto(p, l) == pc' = [pc EXCEPT ![p] = l] /\ UNCHANGED result

FirstLabel(op) == IF op = "submit" THEN "s_user" ELSE IF op = "saveDraft" THEN "d_user" ELSE "x_user"

\* a request arrives: verifyToken and getUserByToken resolve the credential
Start(p, O, U, F, B) ==
  /\ pc[p] = "idle"
  /\ \E op \in O, u \in U, f \in F, b \in B \cup {NoBody} :
       /\ (op = "deleteDraft" \/ f \notin Forms) <=> b = NoBody
       /\ op # "deleteDraft" => Len(responses) + Cardinality(Inserting) < MaxResponses
       /\ req' = [req EXCEPT ![p] = [op |-> op, userId |-> u, formId |-> f, answers |-> b]]
       /\ pc' = [pc EXCEPT ![p] = FirstLabel(op)]
  /\ pre' = [pre EXCEPT ![p] = responses]
  /\ UNCHANGED <<view, now, users, forms, responses, locals, result>>

\* the response has been sent; the slot is free for the next request
Return(p) ==
  /\ pc[p] = "done"
  /\ pc' = [pc EXCEPT ![p] = "idle"]
  /\ req' = [req EXCEPT ![p] = NoReq]
  /\ result' = [result EXCEPT ![p] = NoRes]
  /\ pre' = [pre EXCEPT ![p] = <<>>]
  /\ UNCHANGED <<view, now, users, forms, responses, locals>>

\* ------------------------------------------------------ POST / (submit)
\* User.findOne({_id: userId, deleted: false}), then the formId check
SubmitUser(p) ==
  /\ pc[p] = "s_user"
  /\ IF users[req[p].userId].deleted THEN Finish(p, Res(404, "user", ""))
     ELSE IF req[p].formId \notin ValidObjectIds THEN Finish(p, Res(400, "form_id", ""))
     ELSE Goto(p, "s_form") /\ UNCHANGED locals
  /\ UNCHANGED <<view, now, users, forms, responses, req, pre>>

\* variant: the questions and their required flags are those the form was
\* created with
SubmitFindFormAsCreated(fs, f) == IF f \in DOMAIN fs THEN [fs[f] EXCEPT !.questions = InitForm(f, fs[f].type).questions] ELSE NoForm

\* Form.findOne({_id: formId}): the form is looked up by id alone
SubmitFindForm(fs, f) == IF f \in DOMAIN fs THEN fs[f] ELSE NoForm

\* the form read, the isActive check and, outside diary mode, the
\* synchronous validation up to the existing-response query
SubmitForm(p) ==
  /\ pc[p] = "s_form"
  /\ LET form == SubmitFindForm(forms, req[p].formId)
         v == ValidateSubmit(form, req[p].answers)
     IN IF form = NoForm THEN Finish(p, Res(404, "form", ""))
        ELSE IF ~form.isActive THEN Finish(p, Res(400, "inactive", ""))
        ELSE IF form.type = "diary"
          THEN /\ Goto(p, "s_today")
               /\ formSnap' = [formSnap EXCEPT ![p] = form]
               /\ today' = [today EXCEPT ![p] = DayStart(now)]
               /\ todayEnd' = [todayEnd EXCEPT ![p] = DayEnd(now)]
               /\ UNCHANGED <<draftRef, doc>>
        ELSE IF v # NoRes THEN Finish(p, v)
        ELSE /\ Goto(p, "s_exist")
             /\ formSnap' = [formSnap EXCEPT ![p] = form]
             /\ UNCHANGED <<today, todayEnd, draftRef, doc>>
  /\ UNCHANGED <<view, now, users, forms, responses, req, pre>>

\* Response.findOne({formId, userId, deleted: false, submittedAt: {$gte, $lte}})
ResponseToday(store, f, u, lo, hi) == FirstMatch({i \in 1..Len(store) : store[i].formId = f /\ store[i].userId = u /\ ~store[i].deleted /\ store[i].submittedAt >= lo /\ store[i].submittedAt <= hi})

\* diary mode: the day-window query, then the synchronous validation
SubmitToday(p) ==
  /\ pc[p] = "s_today"
  /\ LET v == ValidateSubmit(formSnap[p], req[p].answers)
     IN IF ResponseToday(responses, req[p].formId, req[p].userId, today[p], todayEnd[p]) # 0 THEN Finish(p, Res(400, "diary_today", ""))
        ELSE IF v # NoRes THEN Finish(p, v)
        ELSE Goto(p, "s_exist") /\ UNCHANGED locals
  /\ UNCHANGED <<view, now, users, forms, responses, req, pre>>

\* variant: the query looks for drafts instead of final responses
ExistingResponseDraft(store, f, u) == FirstMatch(DraftIdx(store, f, u))

\* Response.findOne({formId, userId, deleted: false, isDraft: false})
ExistingResponse(store, f, u) == FirstMatch(FinalIdx(store, f, u))

\* variant: the pair's drafts are soft-deleted before the existing-response
\* query is answered
SubmitExistingLate(p) ==
  /\ pc[p] = "s_exist"
  /\ responses' = SoftDeleteDrafts(responses, req[p].formId, req[p].userId)
  /\ IF ExistingResponse(responses, req[p].formId, req[p].userId) # 0 THEN Finish(p, Res(400, "already", ""))
     ELSE Goto(p, "s_upd") /\ UNCHANGED locals
  /\ UNCHANGED <<view, now, users, forms, req, pre>>

SubmitExisting(p) ==
  /\ pc[p] = "s_exist"
  /\ IF ExistingResponse(responses, req[p].formId, req[p].userId) # 0 THEN Finish(p, Res(400, "already", ""))
     ELSE Goto(p, "s_upd") /\ UNCHANGED locals
  /\ UNCHANGED <<view, now, users, forms, responses, req, pre>>

\* Response.updateMany soft-deletes the pair's drafts; the final document is
\* constructed when the call returns
SubmitSupersede(p) ==
  /\ pc[p] = "s_upd"
  /\ responses' = SoftDeleteDrafts(responses, req[p].formId, req[p].userId)
  /\ doc' = [doc EXCEPT ![p] = NewResponse(formSnap[p].id, req[p].userId, req[p].answers.items, FALSE, now)]
  /\ Goto(p, "s_save")
  /\ UNCHANGED <<view, now, users, forms, req, pre, formSnap, today, todayEnd, draftRef>>

\* response.save()
SubmitSave(p) ==
  /\ pc[p] = "s_save"
  /\ responses' = InsertDoc(responses, doc[p])
  /\ Finish(p, Res(201, "", ""))
  /\ UNCHANGED <<view, now, users, forms, req, pre>>

\* --------------------------------------------------- POST /draft (saveDraft)
DraftUser(p) ==
  /\ pc[p] = "d_user"
  /\ IF users[req[p].userId].deleted THEN Finish(p, Res(404, "user", ""))
     ELSE IF req[p].formId \notin ValidObjectIds THEN Finish(p, Res(400, "form_id", ""))
     ELSE Goto(p, "d_form") /\ UNCHANGED locals
  /\ UNCHANGED <<view, now, users, forms, responses, req, pre>>

\* Form.findOne({_id: formId, deleted: false})
LiveForm(fs, f) == IF f \in DOMAIN fs /\ ~fs[f].deleted THEN fs[f] ELSE NoForm

DraftForm(p) ==
  /\ pc[p] = "d_form"
  /\ LET form == LiveForm(forms, req[p].formId)
         v == ValidateDraft(form, req[p].answers)
     IN IF form = NoForm THEN Finish(p, Res(404, "form", ""))
        ELSE IF ~form.isActive THEN Finish(p, Res(400, "inactive", ""))
        ELSE IF v # NoRes THEN Finish(p, v)
        ELSE /\ Goto(p, "d_find")
             /\ formSnap' = [formSnap EXCEPT ![p] = form]
             /\ UNCHANGED <<today, todayEnd, draftRef, doc>>
  /\ UNCHANGED <<view, now, users, forms, responses, req, pre>>

\* variant: the query does not filter on deleted
ExistingDraftAny(store, f, u) == FirstMatch({i \in 1..Len(store) : store[i].formId = f /\ store[i].userId = u /\ store[i].isDraft})

\* Response.findOne({formId, userId, deleted: false, isDraft: true})
ExistingDraft(store, f, u) == FirstMatch(DraftIdx(store, f, u))

\* the draft query; the found document is modified in memory, or a new
\* draft is constructed, before save() is called
DraftFind(p) ==
  /\ pc[p] = "d_find"
  /\ LET i == ExistingDraft(responses, req[p].formId, req[p].userId)
     IN IF i # 0
          THEN /\ draftRef' = [draftRef EXCEPT ![p] = i]
               /\ doc' = [doc EXCEPT ![p] = [responses[i] EXCEPT !.answers = DraftAnswers(req[p].answers), !.lastModified = now]]
               /\ Goto(p, "d_update")
          ELSE /\ doc' = [doc EXCEPT ![p] = NewResponse(formSnap[p].id, req[p].userId, DraftAnswers(req[p].answers), TRUE, now)]
               /\ Goto(p, "d_create")
               /\ UNCHANGED draftRef
  /\ UNCHANGED <<view, now, users, forms, responses, req, pre, formSnap, today, todayEnd>>

\* variant: only lastModified is written back
SaveStampOnly(store, i, d) == [store EXCEPT ![i].lastModified = d.lastModified]

\* existingDraft.save(): the modified paths are written to the document of
\* that _id, whatever has happened to its other fields meanwhile
SaveModified(store, i, d) == [store EXCEPT ![i].answers = d.answers, ![i].lastModified = d.lastModified]

DraftUpdate(p) ==
  /\ pc[p] = "d_update"
  /\ responses' = SaveModified(responses, draftRef[p], doc[p])
  /\ Finish(p, Res(200, "", ""))
  /\ UNCHANGED <<view, now, users, forms, req, pre>>

DraftCreate(p) ==
  /\ pc[p] = "d_create"
  /\ responses' = InsertDoc(responses, doc[p])
  /\ Finish(p, Res(201, "", ""))
  /\ UNCHANGED <<view, now, users, forms, req, pre>>

\* ------------------------------------------- DELETE /draft/:formId (deleteDraft)
\* variant: the user is not looked up
DeleteUserUnchecked(p) ==
  /\ pc[p] = "x_user"
  /\ IF req[p].formId \notin ValidObjectIds THEN Finish(p, Res(400, "form_id", ""))
     ELSE Goto(p, "x_upd") /\ UNCHANGED locals
  /\ UNCHANGED <<view, now, users, forms, responses, req, pre>>

DeleteUser(p) ==
  /\ pc[p] = "x_user"
  /\ IF users[req[p].userId].deleted THEN Finish(p, Res(404, "user", ""))
     ELSE IF req[p].formId \notin ValidObjectIds THEN Finish(p, Res(400, "form_id", ""))
     ELSE Goto(p, "x_upd") /\ UNCHANGED locals
  /\ UNCHANGED <<view, now, users, forms, responses, req, pre>>

\* Response.findOneAndUpdate({formId, userId, deleted: false, isDraft: true}, {$set: {deleted: true}})
DeleteUpdate(p) ==
  /\ pc[p] = "x_upd"
  /\ LET i == ExistingDraft(responses, req[p].formId, req[p].userId)
     IN IF i = 0 THEN Finish(p, Res(404, "draft", "")) /\ UNCHANGED responses
        ELSE responses' = [responses EXCEPT ![i].deleted = TRUE] /\ Finish(p, Res(200, "", ""))
  /\ UNCHANGED <<view, now, users, forms, req, pre>>

\* ------------------------------------------------------- store failure
\* a pending store call rejects: the handler's catch block answers 500
StoreFails(p) ==
  /\ InFlight(p)
  /\ Finish(p, Res(500, "internal", ""))
  /\ UNCHANGED <<view, now, users, forms, responses, req, pre>>

\* ------------------------------------------------------ admin operations
\* DELETE /api/forms/:formId
AdminDeleteForm(f) ==
  /\ f \in DOMAIN forms
  /\ forms' = [forms EXCEPT ![f].deleted = TRUE]
  /\ UNCHANGED <<view, now, users, responses, pc, req, locals, result, pre>>

\* PUT /api/forms/:formId with isActive and the questions' required flags
AdminUpdateForm(f, active, r1, r2) ==
  /\ LiveForm(forms, f) # NoForm
  /\ forms' = [forms EXCEPT ![f].isActive = active, ![f].questions = <<[questionId |-> "q1", required |-> r1], [questionId |-> "q2", required |-> r2]>>]
  /\ UNCHANGED <<view, now, users, responses, pc, req, locals, result, pre>>

\* variant: the document is removed from the collection
AdminRemoveResponse(i) ==
  /\ i \in 1..Len(responses)
  /\ responses' = [k \in 1..(Len(responses) - 1) |-> IF k < i THEN responses[k] ELSE responses[k + 1]]
  /\ UNCHANGED <<view, now, users, forms, pc, req, locals, result, pre>>

\* DELETE /api/responses/:id
AdminDeleteResponse(i) ==
  /\ i \in 1..Len(responses)
  /\ responses' = [responses EXCEPT ![i].deleted = TRUE]
  /\ UNCHANGED <<view, now, users, forms, pc, req, locals, result, pre>>

\* GET /api/responses/diary/:formId/can-respond: the answer for user u at
\* time t
CanRespondView(us, fs, store, f, u, t) ==
  LET form == LiveForm(fs, f)
      responseToday == FirstMatch({i \in 1..Len(store) : store[i].formId = f /\ store[i].userId = u /\ ~store[i].deleted /\ ~store[i].isDraft /\ store[i].submittedAt >= DayStart(t) /\ store[i].submittedAt <= DayEnd(t)})
  IN IF us[u].deleted THEN [op |-> "canRespond", status |-> 404, error |-> "user", canRespond |-> FALSE]
     ELSE IF form = NoForm THEN [op |-> "canRespond", status |-> 404, error |-> "form", canRespond |-> FALSE]
     ELSE IF form.type # "diary" THEN [op |-> "canRespond", status |-> 400, error |-> "not_diary", canRespond |-> FALSE]
     ELSE [op |-> "canRespond", status |-> 200, error |-> "", canRespond |-> responseToday = 0]

CanRespondToday(f, u) ==
  /\ view' = CanRespondView(users, forms, responses, f, u, now)
  /\ UNCHANGED <<now, users, forms, responses, pc, req, locals, result, pre>>

\* DELETE /api/users/:id by an admin: the account is soft-deleted
AdminDeleteUser(u) ==
  /\ u \in DOMAIN users
  /\ users' = [users EXCEPT ![u].deleted = TRUE]
  /\ UNCHANGED <<view, now, forms, responses, pc, req, locals, result, pre>>

\* time passes
Tick ==
  /\ now < MaxTime
  /\ now' = now + 1
  /\ UNCHANGED <<view, users, forms, responses, pc, req, locals, result, pre>>

\* ------------------------------------------------------------- dashboard
\* The dashboard routes read the store and answer with statistics.  They
\* parse and split the text of an answer, so the answers of the documents
\* they are applied to carry their text character by character: a string or
\* an array of strings.
AStr(c) == [kind |-> "string", chars |-> c, items |-> <<>>]
AArr(xs) == [kind |-> "array", chars |-> <<>>, items |-> xs]

\* the question catalog: q1 is a scale question, q2 a checkbox question
QuestionType == [q \in {"q1", "q2", "q3"} |-> IF q = "q1" THEN "scale" ELSE IF q = "q2" THEN "checkbox" ELSE "text"]

DashFormIds == {"f1", "f9"}
DashQuestionIds == {"q1", "q2"}
RespondentIds == <<"u1", "u2", "u3", "u4", "u5", "u6">>
DashUsers == {RespondentIds[i] : i \in 1..MaxDocs}

\* a respondent's account: plain, anonymous, or soft-deleted
UserKinds == {"plain", "anonymous", "deleted"}
UserDoc(u, kind) == [name |-> <<"name", u>>, email |-> <<"mail", u>>, anonymous |-> kind = "anonymous", deleted |-> kind = "deleted"]

\* values of a JSON answer: numbers, the non-finite numbers, null, and the
\* text toFixed(2) produces (val hundredths, written with two decimals)
Num(n) == [kind |-> "number", val |-> n]
NaN == [kind |-> "NaN", val |-> 0]
Infinity == [kind |-> "Infinity", val |-> 0]
NegInfinity == [kind |-> "-Infinity", val |-> 0]
JNull == [kind |-> "null", val |-> 0]
Fixed2(h) == [kind |-> "fixed2", val |-> h]
NaNText == [kind |-> "text", val |-> 0]

\* JSON.stringify of a number: the non-finite ones are written as null
Json(x) == IF x.kind \in {"NaN", "Infinity", "-Infinity"} THEN JNull ELSE x

Range(sq) == {sq[i] : i \in 1..Len(sq)}
Max(S) == CHOOSE i \in S : \A j \in S : i >= j

DigitChars == <<"0", "1", "2", "3", "4", "5", "6", "7", "8", "9">>
DigitOf(c) == (CHOOSE d \in 1..Len(DigitChars) : DigitChars[d] = c) - 1

RECURSIVE ParseDigits(_, _)
ParseDigits(chars, acc) == IF chars = <<>> \/ Head(chars) \notin Range(DigitChars) THEN acc ELSE ParseDigits(Tail(chars), 10 * acc + DigitOf(Head(chars)))

\* parseInt of a text: its leading decimal digits, NaN when it has none
ParseIntText(chars) == IF chars = <<>> \/ Head(chars) \notin Range(DigitChars) THEN NaN ELSE Num(ParseDigits(chars, 0))

\* parseInt(a): a is converted to text first; an array's text starts with the
\* text of its first element
ParseInt(a) ==
  IF a.kind = "string" THEN ParseIntText(a.chars)
  ELSE IF a.items = <<>> THEN NaN
  ELSE ParseIntText(a.items[1])

\* Response.find({formId, deleted: false})
FormResponses(store, f) == SelectSeq(store, LAMBDA r : r.formId = f /\ ~r.deleted)

\* .populate({path: 'userId', match: {deleted: false}}), then the filter that
\* drops the responses whose userId came back null
OfLiveUsers(us, rs) == SelectSeq(rs, LAMBDA r : ~us[r.userId].deleted)

\* the answer each response holds for the question (the first one, when a
\* response holds several), the responses that hold none left out
RECURSIVE CollectAnswers(_, _)
CollectAnswers(rs, q) ==
  IF rs = <<>> THEN <<>>
  ELSE LET i == FirstMatch({j \in 1..Len(Head(rs).answers) : Head(rs).answers[j].questionId = q})
       IN (IF i = 0 THEN <<>> ELSE <<Head(rs).answers[i].answer>>) \o CollectAnswers(Tail(rs), q)

\* counts[key] = (counts[key] || 0) + 1 over a list of keys
Distribution(keys) == [k \in Range(keys) |-> Cardinality({i \in 1..Len(keys) : keys[i] = k})]

\* answers.map(a => parseInt(a))
ScaleValues(answers) == [i \in 1..Len(answers) |-> ParseInt(answers[i])]
HasNaN(vals) == \E i \in 1..Len(vals) : vals[i].kind = "NaN"

RECURSIVE SeqSum(_)
SeqSum(vals) == IF vals = <<>> THEN 0 ELSE Head(vals).val + SeqSum(Tail(vals))

\* reduce((sum, val) => sum + val, 0) / length: the quotient as a fraction,
\* NaN for 0/0 and when a term is NaN
Average(vals) == IF Len(vals) = 0 \/ HasNaN(vals) THEN NaN ELSE [kind |-> "ratio", val |-> SeqSum(vals), den |-> Len(vals)]

\* variant: the third decimal is cut off
ToFixed2Down(x) == IF x.kind = "NaN" THEN NaNText ELSE Fixed2((100 * x.val) \div x.den)

\* Number.prototype.toFixed(2): the nearest hundredth, the larger one on a tie
ToFixed2(x) == IF x.kind = "NaN" THEN NaNText ELSE Fixed2((200 * x.val + x.den) \div (2 * x.den))

\* Math.min(...values) and Math.max(...values)
MathMin(vals) == IF Len(vals) = 0 THEN Infinity ELSE IF HasNaN(vals) THEN NaN ELSE Num(Min({vals[i].val : i \in 1..Len(vals)}))
MathMax(vals) == IF Len(vals) = 0 THEN NegInfinity ELSE IF HasNaN(vals) THEN NaN ELSE Num(Max({vals[i].val : i \in 1..Len(vals)}))

\* a.split(',')
RECURSIVE SplitComma(_, _)
SplitComma(chars, cur) ==
  IF chars = <<>> THEN <<cur>>
  ELSE IF Head(chars) = "," THEN <<cur>> \o SplitComma(Tail(chars), <<>>)
  ELSE SplitComma(Tail(chars), Append(cur, Head(chars)))

\* s.trim()
RECURSIVE Trim(_)
Trim(c) ==
  IF c = <<>> THEN c
  ELSE IF Head(c) = " " THEN Trim(Tail(c))
  ELSE IF c[Len(c)] = " " THEN Trim(SubSeq(c, 1, Len(c) - 1))
  ELSE c

\* variant: only the first selected option is taken
FirstOptionOnly(a) == IF a.kind = "array" THEN SubSeq(a.items, 1, 1) ELSE <<Trim(SplitComma(a.chars, <<>>)[1])>>

\* Array.isArray(a) ? a : a.split(',').map(s => s.trim())
Options(a) == IF a.kind = "array" THEN a.items ELSE LET parts == SplitComma(a.chars, <<>>) IN [i \in 1..Len(parts) |-> Trim(parts[i])]

RECURSIVE AllOptions(_)
AllOptions(answers) == IF answers = <<>> THEN <<>> ELSE Options(Head(answers)) \o AllOptions(Tail(answers))

\* the switch of GET /analysis/:formId/:questionId on the question's type
QuestionAnalysis(type, answers) ==
  IF type = "scale"
    THEN LET vals == ScaleValues(answers)
         IN [type |-> type, average |-> ToFixed2(Average(vals)), min |-> Json(MathMin(vals)), max |-> Json(MathMax(vals)), distribution |-> Distribution(vals), totalAnswers |-> Len(answers)]
  ELSE IF type = "checkbox"
    THEN [type |-> type, distribution |-> Distribution(AllOptions(answers)), totalAnswers |-> Len(answers)]
  ELSE [type |-> type, totalAnswers |-> Len(answers), answers |-> answers]

\* GET /analysis/:formId/:questionId
AnalysisView(us, fs, store, f, q) ==
  LET answers == CollectAnswers(FormResponses(store, f), q)
  IN IF LiveForm(fs, f) = NoForm THEN [op |-> "analysis", formId |-> f, questionId |-> q, status |-> 404]
     ELSE [op |-> "analysis", formId |-> f, questionId |-> q, status |-> 200, question |-> QuestionTitle[q], questionType |-> QuestionType[q], analysis |-> QuestionAnalysis(QuestionType[q], answers)]

\* the switch of GET /full-analysis/:formId, then totalAnswers
FormQuestionAnalysis(q, answers) ==
  LET type == QuestionType[q]
      vals == ScaleValues(answers)
  IN IF type = "scale" /\ Len(vals) > 0
       THEN [questionId |-> q, title |-> QuestionTitle[q], type |-> type, average |-> ToFixed2(Average(vals)), min |-> Json(MathMin(vals)), max |-> Json(MathMax(vals)), distribution |-> Distribution(vals), totalAnswers |-> Len(answers)]
     ELSE IF type = "scale"
       THEN [questionId |-> q, title |-> QuestionTitle[q], type |-> type, average |-> Num(0), distribution |-> <<>>, totalAnswers |-> Len(answers)]
     ELSE IF type = "checkbox"
       THEN [questionId |-> q, title |-> QuestionTitle[q], type |-> type, distribution |-> Distribution(AllOptions(answers)), totalAnswers |-> Len(answers)]
     ELSE [questionId |-> q, title |-> QuestionTitle[q], type |-> type, sampleAnswers |-> SubSeq(answers, 1, Min({5, Len(answers)})), totalAnswers |-> Len(answers)]

\* GET /full-analysis/:formId
FullAnalysisView(us, fs, store, f) ==
  LET form == LiveForm(fs, f)
      filtered == OfLiveUsers(us, FormResponses(store, f))
  IN IF form = NoForm THEN [op |-> "fullAnalysis", formId |-> f, status |-> 404]
     ELSE [op |-> "fullAnalysis", formId |-> f, status |-> 200, totalResponses |-> Len(filtered), questionsAnalysis |-> [i \in 1..Len(form.questions) |-> FormQuestionAnalysis(form.questions[i].questionId, CollectAnswers(filtered, form.questions[i].questionId))]]

\* answer.join(', ')
RECURSIVE JoinComma(_)
JoinComma(items) ==
  IF items = <<>> THEN <<>>
  ELSE IF Len(items) = 1 THEN items[1]
  ELSE items[1] \o <<",", " ">> \o JoinComma(Tail(items))

\* Array.isArray(answer.answer) ? answer.answer.join(', ') : answer.answer
ExportCell(a) == IF a.kind = "array" THEN AStr(JoinComma(a.items)) ELSE a

\* data[question.questionId.title] = ... for every answer to a question of
\* the form, a later answer to the same question overwriting an earlier one
ExportCells(form, answers) ==
  LET hits == {i \in 1..Len(answers) : answers[i].questionId \in FormQuestionIds(form)}
  IN [t \in {QuestionTitle[answers[i].questionId] : i \in hits} |-> ExportCell(answers[Max({i \in hits : QuestionTitle[answers[i].questionId] = t})].answer)]

\* GET /export/:formId
ExportView(us, fs, store, f) ==
  LET form == LiveForm(fs, f)
      found == FormResponses(store, f)
      kept == OfLiveUsers(us, found)
  IN IF form = NoForm THEN [op |-> "export", formId |-> f, status |-> 404]
     ELSE [op |-> "export", formId |-> f, status |-> 200, totalResponses |-> Len(found), data |-> [i \in 1..Len(kept) |-> [respondent |-> us[kept[i].userId].name, email |-> us[kept[i].userId].email, submittedAt |-> kept[i].submittedAt, cells |-> ExportCells(form, kept[i].answers)]]]

AnalyzeQuestion(f, q) ==
  /\ view' = AnalysisView(users, forms, responses, f, q)
  /\ UNCHANGED <<now, users, forms, responses, pc, req, locals, result, pre>>

AnalyzeForm(f) ==
  /\ view' = FullAnalysisView(users, forms, responses, f)
  /\ UNCHANGED <<now, users, forms, responses, pc, req, locals, result, pre>>

ExportForm(f) ==
  /\ view' = ExportView(users, forms, responses, f)
  /\ UNCHANGED <<now, users, forms, responses, pc, req, locals, result, pre>>

\* the documents the dashboard is applied to: final responses, drafts and a
\* soft-deleted response, document i being the one of respondent i
DashAnswers == <<
  <<Ans("q1", AStr(<<"3">>))>>,
  <<Ans("q1", AStr(<<"1", "0">>)), Ans("q2", AArr(<<<<"a">>, <<"b">>>>))>>,
  <<Ans("q1", AStr(<<"5">>)), Ans("q2", AArr(<<<<"b">>, <<"c">>>>))>>,
  <<Ans("q1", AStr(<<"3">>)), Ans("q2", AStr(<<"a", ",", " ", "b">>))>>,
  <<Ans("q1", AStr(<<"1", "0">>))>>,
  <<Ans("q2", AArr(<<<<"c">>>>))>>,
  <<Ans("q1", AStr(<<"5">>)), Ans("q2", AArr(<<<<"a">>>>))>> >>
DashDrafts == {5, 6}
DashDeleted == {7}
DashDoc(k, u) == [NewResponse("f1", u, DashAnswers[k], k \in DashDrafts, 0) EXCEPT !.deleted = k \in DashDeleted]

InitDash ==
  /\ now = 0
  /\ users = [u \in DashUsers |-> UserDoc(u, "plain")]
  /\ forms = [f \in Forms |-> [InitForm(f, "form") EXCEPT !.assignedUsers = DashUsers]]
  /\ \E n \in 0..MaxDocs : \E ks \in [1..n -> 1..Len(DashAnswers)] : responses = [i \in 1..n |-> DashDoc(ks[i], RespondentIds[i])]
  /\ pc = [p \in Procs |-> "idle"]
  /\ req = [p \in Procs |-> NoReq]
  /\ formSnap = [p \in Procs |-> NoForm]
  /\ today = [p \in Procs |-> NoDate]
  /\ todayEnd = [p \in Procs |-> NoDate]
  /\ draftRef = [p \in Procs |-> 0]
  /\ doc = [p \in Procs |-> NoDoc]
  /\ result = [p \in Procs |-> NoRes]
  /\ pre = [p \in Procs |-> <<>>]
  /\ view = NoView

\* ----------------------------------------------------------- specifications
SubmitStep(p) ==
  \/ SubmitUser(p)
  \/ SubmitForm(p)
  \/ SubmitToday(p)
  \/ SubmitExisting(p)
  \/ SubmitSupersede(p)
  \/ SubmitSave(p)

DraftStep(p) ==
  \/ DraftUser(p)
  \/ DraftForm(p)
  \/ DraftFind(p)
  \/ DraftUpdate(p)
  \/ DraftCreate(p)

DeleteStep(p) ==
  \/ DeleteUser(p)
  \/ DeleteUpdate(p)

Quiet == \A p \in Procs : pc[p] = "idle"

\* the ledger: requests of two users run to completion one after the other,
\* and admins delete responses between them
Next ==
  \/ \E p \in SeqProcs : Quiet /\ Start(p, Ops, Users, Forms, LedgerBodies)
  \/ \E p \in SeqProcs : SubmitStep(p) \/ DraftStep(p) \/ DeleteStep(p) \/ Return(p)
  \/ Quiet /\ \E i \in 1..MaxResponses : AdminDeleteResponse(i)

Spec == Init /\ [][Next]_vars

\* the ledger over a store whose calls can fail
NextFault ==
  \/ \E p \in SeqProcs : Quiet /\ Start(p, Ops, FaultUsers, Forms, FaultBodies)
  \/ \E p \in SeqProcs : SubmitStep(p) \/ DraftStep(p) \/ DeleteStep(p) \/ Return(p)
  \/ \E p \in SeqProcs : StoreFails(p)

SpecFault == Init /\ [][NextFault]_vars

\* the calendar: submissions of one user run to completion while time passes
NextDiary ==
  \/ \E p \in SeqProcs : Quiet /\ Start(p, {"submit"}, DiaryUsers, Forms, DiaryBodies)
  \/ \E p \in SeqProcs : SubmitStep(p) \/ Return(p)
  \/ Quiet /\ \E i \in 1..MaxResponses : AdminDeleteResponse(i)
  \/ Quiet /\ Tick
  \/ Quiet /\ \E f \in Forms, u \in DiaryUsers : CanRespondToday(f, u)

SpecDiary == Init /\ [][NextDiary]_vars

\* the form contract: requests with every kind of body and form id run to
\* completion while admins update and delete the form
NextForm ==
  \/ \E p \in SeqProcs : Quiet /\ Start(p, {"submit", "saveDraft"}, FormUsers, FormIdInputs, Bodies)
  \/ \E p \in SeqProcs : SubmitStep(p) \/ DraftStep(p) \/ Return(p)
  \/ Quiet /\ \E f \in Forms : AdminDeleteForm(f)
  \/ Quiet /\ \E f \in Forms, a \in BOOLEAN, r1 \in BOOLEAN, r2 \in BOOLEAN : AdminUpdateForm(f, a, r1, r2)

SpecForm == Init /\ [][NextForm]_vars

\* the race: requests of one user interleave at every await
NextConc ==
  \/ \E p \in Procs : Start(p, Ops, ConcUsers, Forms, ConcBodies)
  \/ \E p \in Procs : SubmitStep(p) \/ DraftStep(p) \/ DeleteStep(p) \/ Return(p)

SpecConc == Init /\ [][NextConc]_vars

\* ------------------------------------------------------------- listings
\* The listing routes answer a teacher_analyst (the raw listing and the
\* export an admin as well) with the stored responses and their respondents.
\* A field a row does not carry is the empty text.
NoText == <<>>

\* .sort({submittedAt: -1}) over documents with distinct submittedAt
RECURSIVE SortNewestFirst(_)
SortNewestFirst(rs) ==
  IF rs = <<>> THEN <<>>
  ELSE LET sorted == SortNewestFirst(SubSeq(rs, 1, Len(rs) - 1))
           r == rs[Len(rs)]
           k == Cardinality({i \in 1..Len(sorted) : sorted[i].submittedAt >= r.submittedAt})
       IN SubSeq(sorted, 1, k) \o <<r>> \o SubSeq(sorted, k + 1, Len(sorted))

\* Response.find({deleted: false, isDraft: false})
FinalResponses(store) == SelectSeq(store, LAMBDA r : ~r.deleted /\ ~r.isDraft)

\* the populated userId of a row: an anonymous user is reduced to its _id
ListedUser(us, u) == IF us[u].anonymous THEN [id |-> u, name |-> NoText, email |-> NoText] ELSE [id |-> u, name |-> us[u].name, email |-> us[u].email]

\* the populated userId with select 'name email city state institution'
PopulatedUser(us, u) == [id |-> u, name |-> us[u].name, email |-> us[u].email]

\* answers.filter(a => a.questionId !== null)
KnownAnswers(answers) == SelectSeq(answers, LAMBDA a : a.questionId \in DOMAIN QuestionType)

\* GET /api/responses/analysts/all
AnalystsAllView(us, fs, store) ==
  LET found == SortNewestFirst(FinalResponses(store))
      kept == OfLiveUsers(us, SelectSeq(found, LAMBDA r : LiveForm(fs, r.formId) # NoForm))
  IN [op |-> "analystsAll", status |-> 200, data |-> [i \in 1..Len(kept) |-> [formId |-> kept[i].formId, userId |-> ListedUser(us, kept[i].userId), answers |-> KnownAnswers(kept[i].answers), submittedAt |-> kept[i].submittedAt]]]

\* one row of the respondents listing
Respondent(us, r) ==
  IF us[r.userId].deleted THEN [id |-> "", name |-> <<"Usuário Deletado">>, email |-> <<"N/A">>, submittedAt |-> r.submittedAt]
  ELSE IF us[r.userId].anonymous THEN [id |-> r.userId, name |-> NoText, email |-> NoText, submittedAt |-> r.submittedAt]
  ELSE [id |-> r.userId, name |-> us[r.userId].name, email |-> us[r.userId].email, submittedAt |-> r.submittedAt]

\* GET /api/responses/analysts/:formId/respondents
RespondentsView(us, fs, store, f) ==
  LET found == SortNewestFirst(SelectSeq(FinalResponses(store), LAMBDA r : r.formId = f))
  IN IF LiveForm(fs, f) = NoForm THEN [op |-> "respondents", formId |-> f, status |-> 404]
     ELSE [op |-> "respondents", formId |-> f, status |-> 200, totalRespondents |-> Len(found), respondents |-> [i \in 1..Len(found) |-> Respondent(us, found[i])]]

\* GET /:formId of the dashboard: the raw responses of a form
FormResponsesView(us, fs, store, f) ==
  LET kept == OfLiveUsers(us, FormResponses(store, f))
  IN IF LiveForm(fs, f) = NoForm THEN [op |-> "responses", formId |-> f, status |-> 404]
     ELSE [op |-> "responses", formId |-> f, status |-> 200, totalResponses |-> Len(kept), responses |-> [i \in 1..Len(kept) |-> [userId |-> PopulatedUser(us, kept[i].userId), answers |-> KnownAnswers(kept[i].answers), isDraft |-> kept[i].isDraft, submittedAt |-> kept[i].submittedAt]]]

ListAllResponses ==
  /\ view' = AnalystsAllView(users, forms, responses)
  /\ UNCHANGED <<now, users, forms, responses, pc, req, locals, result, pre>>

ListRespondents(f) ==
  /\ view' = RespondentsView(users, forms, responses, f)
  /\ UNCHANGED <<now, users, forms, responses, pc, req, locals, result, pre>>

GetFormResponses(f) ==
  /\ view' = FormResponsesView(users, forms, responses, f)
  /\ UNCHANGED <<now, users, forms, responses, pc, req, locals, result, pre>>

\* the documents the listings are applied to: a final response (template 2)
\* or a soft-deleted one (template 7) per respondent, submitted at distinct
\* times
ListedDoc(k, i) == [DashDoc(k, RespondentIds[i]) EXCEPT !.submittedAt = IF i % 2 = 1 THEN i + 1 ELSE i - 1]

\* the respondents are plain, anonymous or soft-deleted accounts
InitListing ==
  /\ now = 0
  /\ \E kinds \in [DashUsers -> UserKinds] : users = [u \in DashUsers |-> UserDoc(u, kinds[u])]
  /\ forms = [f \in Forms |-> [InitForm(f, "form") EXCEPT !.assignedUsers = DashUsers]]
  /\ \E n \in 0..MaxDocs : \E ks \in [1..n -> {2, 7}] : responses = [i \in 1..n |-> ListedDoc(ks[i], i)]
  /\ pc = [p \in Procs |-> "idle"]
  /\ req = [p \in Procs |-> NoReq]
  /\ formSnap = [p \in Procs |-> NoForm]
  /\ today = [p \in Procs |-> NoDate]
  /\ todayEnd = [p \in Procs |-> NoDate]
  /\ draftRef = [p \in Procs |-> 0]
  /\ doc = [p \in Procs |-> NoDoc]
  /\ result = [p \in Procs |-> NoRes]
  /\ pre = [p \in Procs |-> <<>>]
  /\ view = NoView

\* the listings: the four routes that return respondents
NextListing ==
  \/ ListAllResponses
  \/ \E f \in DashFormIds : ListRespondents(f)
  \/ \E f \in DashFormIds : GetFormResponses(f)
  \/ \E f \in DashFormIds : ExportForm(f)

SpecListing == InitListing /\ [][NextListing]_vars

\* -------------------------------------------------- legacy single-active
\* The legacy form routes keep the Form collection as documents in insertion
\* order; a document's _id is its position.  A body field that may be left
\* out is a record that says whether it was given.
Given(v) == [given |-> TRUE, value |-> v]
NotGiven == [given |-> FALSE, value |-> <<>>]
TitleInputs == {<<>>, <<" ">>, <<"a", "b">>, <<" ", "a", "b", "c">>}
QuestionInputs == {<<>>, <<[questionId |-> "bad", required |-> FALSE]>>, <<[questionId |-> "q1", required |-> FALSE]>>, <<[questionId |-> "q1", required |-> TRUE]>>}
\* req.body.isActive: left out, true, false, or a non-empty string
IsActiveInputs == {"absent", "true", "false", "text"}
\* if (formIsActive)
Truthy(v) == v \in {"true", "text"}
\* what the Form schema stores for isActive: a boolean as it is; for a
\* non-boolean the cast decides, and a failed cast rejects the save
StoredFlag(v) == IF v = "text" THEN {"true", "false", "error"} ELSE {v}
\* questions.map(q => ({questionId, order, required: q.required || false}))
MapQuestions(qs) == [i \in 1..Len(qs) |-> [questionId |-> qs[i].questionId, order |-> i - 1, required |-> qs[i].required]]
LegacyView(op, st) == [op |-> op, status |-> st]

\* Form.updateMany({}, {isActive: false})
DeactivateAll(fs) == [i \in 1..Len(fs) |-> [fs[i] EXCEPT !.isActive = FALSE]]

\* variant: no other form is touched
KeepOthers(fs, id) == fs

\* Form.updateMany({_id: {$ne: formId}}, {isActive: false})
DeactivateOthers(fs, id) == [i \in 1..Len(fs) |-> IF i # id THEN [fs[i] EXCEPT !.isActive = FALSE] ELSE fs[i]]

\* POST /api/forms by an admin
LegacyCreateForm(title, questions, isActive) ==
  /\ Len(forms) < MaxForms
  /\ LET formIsActive == IF isActive # "absent" THEN isActive ELSE "true"
         others == IF Truthy(formIsActive) THEN DeactivateAll(forms) ELSE forms
     IN IF Trim(title) = <<>> THEN view' = LegacyView("create", 400) /\ UNCHANGED forms
        ELSE IF questions = <<>> THEN view' = LegacyView("create", 400) /\ UNCHANGED forms
        ELSE IF \E i \in 1..Len(questions) : questions[i].questionId \notin ValidObjectIds THEN view' = LegacyView("create", 400) /\ UNCHANGED forms
        ELSE \E stored \in StoredFlag(formIsActive) :
               IF stored = "error" THEN view' = LegacyView("create", 500) /\ forms' = others
               ELSE /\ forms' = Append(others, [title |-> Trim(title), questions |-> MapQuestions(questions), isActive |-> stored = "true"])
                    /\ view' = LegacyView("create", 201)
  /\ UNCHANGED <<now, users, responses, pc, req, locals, result, pre>>

\* validateFormUpdate({title, description, questions, isActive}, form)
ValidFormUpdate(title, questions, isActive) ==
  /\ title.given => Len(Trim(title.value)) >= 3
  /\ questions.given => (questions.value # <<>> /\ \A i \in 1..Len(questions.value) : questions.value[i].questionId \in ValidObjectIds)
  /\ isActive \in {"absent", "true", "false"}

\* PUT /api/forms/:id by an admin
LegacyUpdateForm(id, title, questions, isActive) ==
  /\ IF id \notin 1..Len(forms) THEN view' = LegacyView("update", 404) /\ UNCHANGED forms
     ELSE IF ~ValidFormUpdate(title, questions, isActive) THEN view' = LegacyView("update", 400) /\ UNCHANGED forms
     ELSE LET form == forms[id]
              formIsActive == IF isActive # "absent" THEN isActive = "true" ELSE form.isActive
              others == IF formIsActive THEN DeactivateOthers(forms, id) ELSE forms
              updated == [title |-> IF title.given THEN Trim(title.value) ELSE form.title,
                          questions |-> IF questions.given THEN MapQuestions(questions.value) ELSE form.questions,
                          isActive |-> formIsActive]
          IN /\ forms' = [others EXCEPT ![id] = updated]
             /\ view' = LegacyView("update", 200)
  /\ UNCHANGED <<now, users, responses, pc, req, locals, result, pre>>

\* the Form collection is empty when the first form is created
InitLegacy ==
  /\ now = 0
  /\ users = [u \in Users |-> [deleted |-> FALSE]]
  /\ forms = <<>>
  /\ responses = <<>>
  /\ pc = [p \in Procs |-> "idle"]
  /\ req = [p \in Procs |-> NoReq]
  /\ formSnap = [p \in Procs |-> NoForm]
  /\ today = [p \in Procs |-> NoDate]
  /\ todayEnd = [p \in Procs |-> NoDate]
  /\ draftRef = [p \in Procs |-> 0]
  /\ doc = [p \in Procs |-> NoDoc]
  /\ result = [p \in Procs |-> NoRes]
  /\ pre = [p \in Procs |-> <<>>]
  /\ view = NoView

\* the legacy routes: create-form and update-form requests of admins, each
\* run to completion
NextLegacy ==
  \/ \E t \in TitleInputs, qs \in QuestionInputs, a \in IsActiveInputs : LegacyCreateForm(t, qs, a)
  \/ \E id \in 1..MaxForms, t \in {NotGiven} \cup {Given(x) : x \in TitleInputs}, qs \in {NotGiven} \cup {Given(x) : x \in QuestionInputs}, a \in IsActiveInputs : LegacyUpdateForm(id, t, qs, a)

SpecLegacy == InitLegacy /\ [][NextLegacy]_vars

\* ------------------------------------------------------- password reset
\* The accounts forgot-password looks up are documents in insertion order;
\* an email is its text, character by character.
EmailInputs == {<<>>, <<"a", "b">>, <<"a", "@", "b">>, <<"a", " ", "@", "b", ".", "c">>, <<"a", "@", "@", "b", ".", "c">>, <<"a", "@", "b", ".", "c">>, <<"x", "@", "y", ".", "z">>, <<"n", "@", "o", ".", "p">>}
\* crypto.randomBytes(32).toString('hex')
Tokens == {"t1", "t2"}
\* crypto.createHash('sha256').update(token).digest('hex')
Sha256(t) == <<"sha256", t>>
Account(e, del) == [email |-> e, deleted |-> del, resetPasswordToken |-> <<>>, resetPasswordExpires |-> [at |-> NoDate, plus |-> ""]]

\* /^[^\s@]+@[^\s@]+\.[^\s@]+$/.test(email)
EmailRegexTest(e) ==
  LET ats == {i \in 1..Len(e) : e[i] = "@"}
  IN /\ Cardinality(ats) = 1
     /\ \A i \in 1..Len(e) : e[i] # " "
     /\ \A a \in ats : a > 1 /\ \E d \in (a + 2)..(Len(e) - 1) : e[d] = "."

\* User.findOne({email})
FindByEmail(us, e) == FirstMatch({i \in 1..Len(us) : us[i].email = e})

\* the status and body forgot-password answers with
ForgotAnswer(us, e, mailed) ==
  IF e = <<>> THEN [status |-> 400, error |-> "required", msg |-> ""]
  ELSE IF ~EmailRegexTest(e) THEN [status |-> 400, error |-> "format", msg |-> ""]
  ELSE IF FindByEmail(us, e) = 0 THEN [status |-> 200, error |-> "", msg |-> "Se o e-mail existir, você receberá um link para redefinir a senha"]
  ELSE IF ~mailed THEN [status |-> 500, error |-> "process", msg |-> ""]
  ELSE [status |-> 200, error |-> "", msg |-> "E-mail de recuperação enviado com sucesso"]

\* POST /api/auth/forgot-password; sendResetEmail delivers (mailed) or throws
ForgotPassword(e, token, mailed) ==
  /\ LET i == FindByEmail(users, e)
         found == e # <<>> /\ EmailRegexTest(e) /\ i # 0
     IN /\ users' = IF found THEN [users EXCEPT ![i].resetPasswordToken = Sha256(token), ![i].resetPasswordExpires = [at |-> now, plus |-> "3600000"]] ELSE users
        /\ view' = [op |-> "forgotPassword", email |-> e, answer |-> ForgotAnswer(users, e, mailed), mail |-> IF found /\ mailed THEN [to |-> e, token |-> token] ELSE [to |-> <<>>, token |-> ""]]
  /\ UNCHANGED <<now, forms, responses, pc, req, locals, result, pre>>

\* two registered accounts, one of them soft-deleted
InitAuth ==
  /\ now = 0
  /\ users = <<Account(<<"a", "@", "b", ".", "c">>, FALSE), Account(<<"x", "@", "y", ".", "z">>, TRUE)>>
  /\ \E t \in FormTypes : forms = [f \in Forms |-> InitForm(f, t)]
  /\ responses = <<>>
  /\ pc = [p \in Procs |-> "idle"]
  /\ req = [p \in Procs |-> NoReq]
  /\ formSnap = [p \in Procs |-> NoForm]
  /\ today = [p \in Procs |-> NoDate]
  /\ todayEnd = [p \in Procs |-> NoDate]
  /\ draftRef = [p \in Procs |-> 0]
  /\ doc = [p \in Procs |-> NoDoc]
  /\ result = [p \in Procs |-> NoRes]
  /\ pre = [p \in Procs |-> <<>>]
  /\ view = NoView

\* password recovery: forgot-password requests while time passes
NextAuth ==
  \/ \E e \in EmailInputs, t \in Tokens, m \in BOOLEAN : ForgotPassword(e, t, m)
  \/ Tick

SpecAuth == InitAuth /\ [][NextAuth]_vars

\* the accounts: requests of one user run to completion and an admin
\* soft-deletes the user's account between them
NextAccount ==
  \/ \E p \in SeqProcs : Quiet /\ Start(p, Ops, FormUsers, Forms, ConcBodies)
  \/ \E p \in SeqProcs : SubmitStep(p) \/ DraftStep(p) \/ DeleteStep(p) \/ Return(p)
  \/ Quiet /\ \E u \in FormUsers : AdminDeleteUser(u)

SpecAccount == Init /\ [][NextAccount]_vars

\* the dashboard: the three views applied to a store of final responses,
\* drafts and soft-deleted responses
NextDash ==
  \/ \E f \in DashFormIds, q \in DashQuestionIds : AnalyzeQuestion(f, q)
  \/ \E f \in DashFormIds : AnalyzeForm(f)
  \/ \E f \in DashFormIds : ExportForm(f)

SpecDash == InitDash /\ [][NextDash]_vars

\* =================================================================== claims
Done(p, op) == pc[p] = "done" /\ req[p].op = op /\ req[p].formId \in Forms
Live(f) == ~forms[f].deleted /\ forms[f].isActive
FinalsOnDay(store, f, u, t) == {i \in FinalIdx(store, f, u) : DayStart(store[i].submittedAt) = DayStart(t)}
RequiredIds(form) == {form.questions[i].questionId : i \in {j \in 1..Len(form.questions) : form.questions[j].required}}
WellFormed(form, body) ==
  /\ body.kind = "array"
  /\ \A i \in 1..Len(body.items) : body.items[i].questionId \in FormQuestionIds(form) /\ body.items[i].answer # ""
  /\ \A i, j \in 1..Len(body.items) : body.items[i].questionId = body.items[j].questionId => i = j
AllRequiredAnswered(form, body) == RequiredIds(form) \subseteq AnsweredIds(body.items)
\* the two already-answered rules as the submit handler applies them
AnsweredBefore(store, form, u) ==
  \/ FinalIdx(store, form.id, u) # {}
  \/ form.type = "diary" /\ \E i \in 1..Len(store) : store[i].formId = form.id /\ store[i].userId = u /\ ~store[i].deleted /\ DayStart(store[i].submittedAt) = DayStart(now)

C2_DiaryDailyCap ==
  \A f \in Forms, u \in Users : forms[f].type = "diary" =>
    /\ \A t \in 0..MaxTime : Cardinality(FinalsOnDay(responses, f, u, t)) <= 1
    /\ \A p \in SeqProcs : (Done(p, "submit") /\ req[p].formId = f /\ req[p].userId = u /\ Live(f) /\ WellFormed(forms[f], req[p].answers) /\ AllRequiredAnswered(forms[f], req[p].answers) /\ FinalsOnDay(pre[p], f, u, now) = {}) => result[p].status = 201

\* C3: two submit requests of one user for one non-diary form that both pass
\* the existing-response check before either inserts both succeed, and the
\* pair then holds two non-deleted final responses.
C3_RaceDoubleInsert ==
  \A p, q \in Procs : (p # q /\ Done(p, "submit") /\ Done(q, "submit") /\ req[p].formId = req[q].formId /\ req[p].userId = req[q].userId /\ forms[req[p].formId].type = "form" /\ result[p].status = 201 /\ result[q].status = 201) =>
    Cardinality(FinalIdx(responses, req[p].formId, req[p].userId)) >= 2

C3_Witness == \E p, q \in Procs : p # q /\ Done(p, "submit") /\ Done(q, "submit") /\ req[p].userId = req[q].userId /\ forms[req[p].formId].type = "form" /\ result[p].status = 201 /\ result[q].status = 201 /\ Cardinality(FinalIdx(responses, req[p].formId, req[p].userId)) = 2

\* C4: when a submit succeeds, getDraft of the pair returns null (a draft
\* saved before it is soft-deleted) and the pair holds exactly one
\* non-deleted final response.
C4_DraftSuperseded ==
  \A p \in SeqProcs : (Done(p, "submit") /\ result[p].status = 201) =>
    /\ GetDraft(responses, req[p].formId, req[p].userId) = NoDoc
    /\ \A i \in DraftIdx(pre[p], req[p].formId, req[p].userId) : responses[i].deleted
    /\ Cardinality(FinalIdx(responses, req[p].formId, req[p].userId)) = 1

C4_Witness == \E p \in SeqProcs : Done(p, "submit") /\ result[p].status = 201 /\ DraftIdx(pre[p], req[p].formId, req[p].userId) # {}

\* C5: a completed submit never leaves a draft of the pair soft-deleted
\* without a final response of the pair recorded: the soft-delete of the
\* draft and the insert of the final response happen both or neither.
C5_AtomicSupersede ==
  \A p \in SeqProcs : Done(p, "submit") =>
    ((\E i \in DraftIdx(pre[p], req[p].formId, req[p].userId) : responses[i].deleted) => FinalIdx(responses, req[p].formId, req[p].userId) # {})

\* C6: once a pair on a non-diary form holds a non-deleted final response,
\* no saveDraft, deleteDraft or submit of that user creates a non-deleted
\* draft or another final response for the pair.
C6_FinalTerminal ==
  \A p \in SeqProcs : (pc[p] = "done" /\ req[p].formId \in Forms /\ forms[req[p].formId].type = "form" /\ FinalIdx(pre[p], req[p].formId, req[p].userId) # {}) =>
    /\ DraftIdx(responses, req[p].formId, req[p].userId) \subseteq DraftIdx(pre[p], req[p].formId, req[p].userId)
    /\ FinalIdx(responses, req[p].formId, req[p].userId) = FinalIdx(pre[p], req[p].formId, req[p].userId)

\* C7: after a saveDraft that succeeds the pair holds exactly one non-deleted
\* draft, and it holds the answers of that call, also when an earlier
\* saveDraft stored other answers.
C7_DraftUpsert ==
  \A p \in SeqProcs : (Done(p, "saveDraft") /\ result[p].status \in {200, 201}) =>
    /\ Cardinality(DraftIdx(responses, req[p].formId, req[p].userId)) = 1
    /\ GetDraft(responses, req[p].formId, req[p].userId).answers = req[p].answers.items
    /\ Len(responses) = Len(pre[p]) + (IF DraftIdx(pre[p], req[p].formId, req[p].userId) = {} THEN 1 ELSE 0)

C7_Witness == \E p \in SeqProcs : Done(p, "saveDraft") /\ result[p].status = 200 /\ GetDraft(pre[p], req[p].formId, req[p].userId) # NoDoc /\ GetDraft(pre[p], req[p].formId, req[p].userId).answers # req[p].answers.items

\* C8: under every interleaving of saveDraft requests a pair holds at most
\* one non-deleted draft.
C8_AtMostOneDraft == \A f \in Forms, u \in Users : Cardinality(DraftIdx(responses, f, u)) <= 1

\* C9: a submit that satisfies every other rule is rejected with the
\* validation error that names a missing required question when some
\* required question has no answer, and succeeds when every required question
\* is answered, optional questions omitted or not.
C9_RequiredCoverage ==
  \A p \in SeqProcs : (Done(p, "submit") /\ Live(req[p].formId) /\ WellFormed(forms[req[p].formId], req[p].answers) /\ ~AnsweredBefore(pre[p], forms[req[p].formId], req[p].userId)) =>
    LET form == forms[req[p].formId]
        missing == RequiredIds(form) \ AnsweredIds(req[p].answers.items)
    IN /\ missing # {} => (result[p].status = 400 /\ result[p].error = "required" /\ result[p].detail \in {QuestionTitle[q] : q \in missing} /\ responses = pre[p])
       /\ missing = {} => (result[p].status = 201 /\ Len(responses) = Len(pre[p]) + 1)

C9_Witness == \E p \in SeqProcs : Done(p, "submit") /\ Live(req[p].formId) /\ result[p].status = 201 /\ RequiredIds(forms[req[p].formId]) # {} /\ AnsweredIds(req[p].answers.items) = RequiredIds(forms[req[p].formId]) /\ FormQuestionIds(forms[req[p].formId]) # RequiredIds(forms[req[p].formId])

\* C10: a submit on a soft-deleted form is rejected with NotFound and creates
\* no response, whatever the form's isActive flag is.
C10_DeletedFormRejected ==
  \A p \in SeqProcs : (Done(p, "submit") /\ forms[req[p].formId].deleted) => (result[p] = Res(404, "form", "") /\ responses = pre[p])

\* C11: a submit by a user who is not in the form's assignedUsers list is
\* rejected and creates no response.
C11_UnassignedRejected ==
  \A p \in SeqProcs : (Done(p, "submit") /\ req[p].userId \notin forms[req[p].formId].assignedUsers) => (result[p].status \in {400, 403, 404} /\ responses = pre[p])

\* C12: a submit or saveDraft that ends in a NotFound, inactive-form,
\* validation or already-answered error leaves the response store as it was
\* when the request arrived; in particular the pair's draft is kept.
C12_ErrorsLeaveStore ==
  \A p \in SeqProcs : (pc[p] = "done" /\ req[p].op \in {"submit", "saveDraft"} /\ result[p].status \in {400, 404}) =>
    /\ responses = pre[p]
    /\ req[p].formId \in Forms => GetDraft(responses, req[p].formId, req[p].userId) = GetDraft(pre[p], req[p].formId, req[p].userId)

C12_Witness == \E p \in SeqProcs : Done(p, "submit") /\ result[p] = Res(400, "already", "") /\ GetDraft(pre[p], req[p].formId, req[p].userId) # NoDoc

\* the nine rules of submit, each stated on the request and on the state it
\* arrived in, independently of the others; the diary rule and the
\* already-answered rule as the handler applies them
C13_Violates(k, p) ==
  LET f == req[p].formId
      u == req[p].userId
      items == IF req[p].answers.kind = "array" THEN req[p].answers.items ELSE <<>>
  IN IF k = 1 THEN f \notin Forms
     ELSE IF k = 2 THEN f \in Forms /\ ~forms[f].isActive
     ELSE IF k = 3 THEN f \in Forms /\ forms[f].type = "diary" /\ \E i \in 1..Len(pre[p]) : pre[p][i].formId = f /\ pre[p][i].userId = u /\ ~pre[p][i].deleted /\ DayStart(pre[p][i].submittedAt) = DayStart(now)
     ELSE IF k = 4 THEN req[p].answers.kind # "array"
     ELSE IF k = 5 THEN \E i \in 1..Len(items) : items[i].questionId \notin ValidObjectIds \/ (f \in Forms /\ items[i].questionId \notin FormQuestionIds(forms[f]))
     ELSE IF k = 6 THEN \E i, j \in 1..Len(items) : i # j /\ items[i].questionId = items[j].questionId
     ELSE IF k = 7 THEN \E i \in 1..Len(items) : items[i].answer = ""
     ELSE IF k = 8 THEN f \in Forms /\ ~(RequiredIds(forms[f]) \subseteq AnsweredIds(items))
     ELSE FinalIdx(pre[p], f, u) # {}

\* the place of a reported failure in the order of the rules
C13_Rank(r) ==
  IF r = Res(404, "form", "") THEN 1
  ELSE IF r = Res(400, "inactive", "") THEN 2
  ELSE IF r = Res(400, "diary_today", "") THEN 3
  ELSE IF r = Res(400, "format", "") THEN 4
  ELSE IF r.status = 400 /\ r.error \in {"invalid_ids", "not_in_form"} THEN 5
  ELSE IF r = Res(400, "duplicate", "") THEN 6
  ELSE IF r = Res(400, "empty", "") THEN 7
  ELSE IF r.status = 400 /\ r.error = "required" THEN 8
  ELSE IF r = Res(400, "already", "") THEN 9
  ELSE 0

\* C13: a submit on a form that is not soft-deleted reports exactly one
\* failure, the earliest violated rule in the order form missing, form
\* inactive, diary answered today, answers not an array, invalid or
\* non-member question id, duplicate question id, empty answer value, missing
\* required question, already answered; it succeeds when no rule is violated.
C13_FirstFailureReported ==
  \A p \in SeqProcs : (pc[p] = "done" /\ req[p].op = "submit" /\ req[p].formId \in ValidObjectIds /\ (req[p].formId \in Forms => ~forms[req[p].formId].deleted)) =>
    LET violated == {k \in 1..9 : C13_Violates(k, p)}
    IN IF violated = {} THEN result[p].status = 201 ELSE C13_Rank(result[p]) = Min(violated)

C13_Witness == \E p \in SeqProcs : Done(p, "submit") /\ ~forms[req[p].formId].deleted /\ result[p].error = "duplicate" /\ C13_Violates(8, p) /\ C13_Violates(9, p)

\* the store without its drafts and its soft-deleted responses
FinalsOnly(store) == SelectSeq(store, LAMBDA r : ~r.isDraft /\ ~r.deleted)

\* C14: the analysis and export views depend only on the non-deleted final
\* responses: every answer the dashboard gives equals the answer it gives on
\* the store with the drafts and the soft-deleted responses taken out.
C14_FinalsOnlyViews ==
  /\ view.op = "analysis" => view = AnalysisView(users, forms, FinalsOnly(responses), view.formId, view.questionId)
  /\ view.op = "fullAnalysis" => view = FullAnalysisView(users, forms, FinalsOnly(responses), view.formId)
  /\ view.op = "export" => view = ExportView(users, forms, FinalsOnly(responses), view.formId)

\* the non-deleted final responses of a form
FinalsOfForm(store, f) == {i \in 1..Len(store) : store[i].formId = f /\ ~store[i].deleted /\ ~store[i].isDraft}

\* C15: the full analysis of a form with no final response answers 200 with
\* totalResponses 0 and, for each scale question, average 0, an empty
\* distribution and totalAnswers 0.
C15_EmptyFormAnalysis ==
  (view.op = "fullAnalysis" /\ view.formId \in Forms /\ ~forms[view.formId].deleted /\ FinalsOfForm(responses, view.formId) = {}) =>
    /\ view.status = 200
    /\ view.totalResponses = 0
    /\ \A i \in 1..Len(view.questionsAnalysis) : view.questionsAnalysis[i].type = "scale" =>
         /\ view.questionsAnalysis[i].average = Num(0)
         /\ DOMAIN view.questionsAnalysis[i].distribution = {}
         /\ view.questionsAnalysis[i].totalAnswers = 0

\* the responses the analysis of question q of form f reads an answer from
Answering(store, f, q) == {i \in 1..Len(store) : store[i].formId = f /\ ~store[i].deleted /\ q \in AnsweredIds(store[i].answers)}

\* C16: the single-question analysis of a scale question that no response
\* answers reports average 0, an empty distribution and numbers as min and max.
C16_EmptyScaleQuestion ==
  (view.op = "analysis" /\ view.status = 200 /\ view.questionType = "scale" /\ Answering(responses, view.formId, view.questionId) = {}) =>
    /\ view.analysis.average \in {Num(0), Fixed2(0)}
    /\ DOMAIN view.analysis.distribution = {}
    /\ view.analysis.min.kind = "number"
    /\ view.analysis.max.kind = "number"
    /\ view.analysis.totalAnswers = 0

\* the decimal numeral of a natural number
RECURSIVE Decimal(_)
Decimal(n) == IF n < 10 THEN <<DigitChars[n + 1]>> ELSE Decimal(n \div 10) \o <<DigitChars[(n % 10) + 1]>>

\* the answer of response i to question q, and the integer it denotes (-1
\* when it is not a numeral)
AnswerOf(store, i, q) == store[i].answers[Min({j \in 1..Len(store[i].answers) : store[i].answers[j].questionId = q})].answer
IntegerOf(a) ==
  IF a.kind = "string" /\ \E n \in 0..20 : Decimal(n) = a.chars THEN CHOOSE n \in 0..20 : Decimal(n) = a.chars
  ELSE 0 - 1

RECURSIVE SumOver(_, _, _)
SumOver(store, S, q) == IF S = {} THEN 0 ELSE LET i == Min(S) IN IntegerOf(AnswerOf(store, i, q)) + SumOver(store, S \ {i}, q)

\* the statistics the claim states for the integer answers of the responses S
C17_Statistics(a, store, S, q) ==
  LET value(i) == IntegerOf(AnswerOf(store, i, q))
      values == {value(i) : i \in S}
      n == Cardinality(S)
      sum == SumOver(store, S, q)
  IN /\ a.totalAnswers = n
     /\ a.min = Num(Min(values))
     /\ a.max = Num(Max(values))
     /\ DOMAIN a.distribution = {Num(v) : v \in values}
     /\ \A v \in values : a.distribution[Num(v)] = Cardinality({i \in S : value(i) = v})
     /\ a.average.kind = "fixed2"
     /\ 2 * (100 * sum - a.average.val * n) <= n
     /\ 2 * (a.average.val * n - 100 * sum) <= n

\* C17: for a scale question whose n >= 1 answers are integers, the
\* single-question analysis and the full analysis report the smallest answer
\* as min, the largest as max, the number of occurrences of each value as
\* distribution, n as totalAnswers and (sum of the answers)/n to the nearest
\* hundredth, written with two decimals, as average.
C17_ScaleStatistics ==
  /\ (view.op = "analysis" /\ view.status = 200 /\ view.questionType = "scale") =>
       LET S == Answering(responses, view.formId, view.questionId)
       IN (S # {} /\ \A i \in S : IntegerOf(AnswerOf(responses, i, view.questionId)) >= 0) => C17_Statistics(view.analysis, responses, S, view.questionId)
  /\ (view.op = "fullAnalysis" /\ view.status = 200) =>
       \A k \in 1..Len(view.questionsAnalysis) : view.questionsAnalysis[k].type = "scale" =>
         LET S == {i \in Answering(responses, view.formId, view.questionsAnalysis[k].questionId) : ~users[responses[i].userId].deleted}
         IN (S # {} /\ \A i \in S : IntegerOf(AnswerOf(responses, i, view.questionsAnalysis[k].questionId)) >= 0) => C17_Statistics(view.questionsAnalysis[k], responses, S, view.questionsAnalysis[k].questionId)

\* the answers 3, 5, 5, 10 give 5.75, min 3, max 10, {3:1, 5:2, 10:1} and 4
C17_Witness ==
  /\ view.op = "analysis" /\ view.status = 200 /\ view.questionType = "scale"
  /\ Len(responses) = 4
  /\ \A i \in 1..4 : "q1" \in AnsweredIds(responses[i].answers)
  /\ \E i, j \in 1..4 : i # j /\ IntegerOf(AnswerOf(responses, i, "q1")) = 3 /\ IntegerOf(AnswerOf(responses, j, "q1")) = 10 /\ \A k \in 1..4 \ {i, j} : IntegerOf(AnswerOf(responses, k, "q1")) = 5
  /\ \A i \in 1..4 : ~responses[i].deleted
  /\ view.analysis.average = Fixed2(575)
  /\ view.analysis.min = Num(3)
  /\ view.analysis.max = Num(10)
  /\ view.analysis.distribution = (Num(3) :> 1) @@ (Num(5) :> 2) @@ (Num(10) :> 1)
  /\ view.analysis.totalAnswers = 4

\* the places at which an answer selects option o: the positions of o in an
\* array, the starts of the comma-delimited parts of a string that are o once
\* the blanks around them are dropped
SelectionsOf(a, o) ==
  IF a.kind = "array" THEN {j \in 1..Len(a.items) : a.items[j] = o}
  ELSE LET c == a.chars
           part(s, e) == (s = 1 \/ c[s - 1] = ",") /\ (e = Len(c) \/ c[e + 1] = ",") /\ \A k \in s..e : c[k] # ","
           inked(s, e) == {k \in s..e : c[k] # " "}
           text(s, e) == IF inked(s, e) = {} THEN <<>> ELSE SubSeq(c, Min(inked(s, e)), Max(inked(s, e)))
       IN {s \in 1..(Len(c) + 1) : \E e \in (s - 1)..Len(c) : part(s, e) /\ text(s, e) = o}

\* the tally the claim states for the checkbox answers of the responses S
C18_Tally(a, store, S, q) ==
  LET picks(o) == {<<i, j>> \in S \X (1..8) : j \in SelectionsOf(AnswerOf(store, i, q), o)}
  IN /\ a.totalAnswers = Cardinality(S)
     /\ \A o \in DOMAIN a.distribution : a.distribution[o] = Cardinality(picks(o)) /\ picks(o) # {}
     /\ \A o \in {<<"a">>, <<"b">>, <<"c">>, <<>>} : picks(o) # {} => o \in DOMAIN a.distribution

\* C18: for a checkbox question each response adds one count to the
\* distribution for every option it selected, given as an array or as a
\* comma-delimited string, and totalAnswers is the number of responses that
\* answered the question, in the single-question analysis and in the full one.
C18_CheckboxTally ==
  /\ (view.op = "analysis" /\ view.status = 200 /\ view.questionType = "checkbox") =>
       C18_Tally(view.analysis, responses, Answering(responses, view.formId, view.questionId), view.questionId)
  /\ (view.op = "fullAnalysis" /\ view.status = 200) =>
       \A k \in 1..Len(view.questionsAnalysis) : view.questionsAnalysis[k].type = "checkbox" =>
         C18_Tally(view.questionsAnalysis[k], responses, {i \in Answering(responses, view.formId, view.questionsAnalysis[k].questionId) : ~users[responses[i].userId].deleted}, view.questionsAnalysis[k].questionId)

\* [a, b], [b, c] and "a, b" give {a:2, b:3, c:1} and totalAnswers 3
C18_Witness ==
  /\ view.op = "analysis" /\ view.status = 200 /\ view.questionType = "checkbox"
  /\ \E i \in Answering(responses, "f1", "q2") : AnswerOf(responses, i, "q2").kind = "string"
  /\ view.analysis.distribution = (<<"a">> :> 2) @@ (<<"b">> :> 3) @@ (<<"c">> :> 1)
  /\ view.analysis.totalAnswers = 3

\* C19: the export holds exactly one row per non-deleted final response of
\* the form, in the store's order, each row with one column per answered
\* question of the form keyed by the question's title, an array answer
\* joined into one comma-separated string.
C19_ExportRows ==
  (view.op = "export" /\ view.status = 200) =>
    LET finals == SelectSeq(responses, LAMBDA r : r.formId = view.formId /\ ~r.deleted /\ ~r.isDraft)
    IN /\ Len(view.data) = Len(finals)
       /\ \A k \in 1..Len(finals) :
            /\ view.data[k].respondent = users[finals[k].userId].name
            /\ DOMAIN view.data[k].cells = {QuestionTitle[q] : q \in AnsweredIds(finals[k].answers) \cap FormQuestionIds(forms[view.formId])}
            /\ \A j \in 1..Len(finals[k].answers) : finals[k].answers[j].questionId \in FormQuestionIds(forms[view.formId]) =>
                 view.data[k].cells[QuestionTitle[finals[k].answers[j].questionId]].kind = "string"

\* C20: a saveDraft is rejected, the store left as it was, when the form is
\* missing, soft-deleted or inactive or when an answer names a question that
\* is not in the form's list; otherwise it succeeds, whether or not the
\* required questions are answered.
C20_DraftPreconditions ==
  \A p \in SeqProcs : (pc[p] = "done" /\ req[p].op = "saveDraft" /\ req[p].formId \in ValidObjectIds) =>
    LET f == req[p].formId
        items == req[p].answers.items
    IN IF f \notin Forms \/ forms[f].deleted THEN result[p] = Res(404, "form", "") /\ responses = pre[p]
       ELSE IF ~forms[f].isActive THEN result[p] = Res(400, "inactive", "") /\ responses = pre[p]
       ELSE IF \E i \in 1..Len(items) : items[i].questionId \notin FormQuestionIds(forms[f]) THEN result[p].status = 400 /\ result[p].error \in {"invalid_ids", "not_in_form"} /\ responses = pre[p]
       ELSE IF req[p].answers.kind = "nonarray" THEN result[p] = Res(400, "format", "") /\ responses = pre[p]
       ELSE result[p].status \in {200, 201} /\ GetDraft(responses, f, req[p].userId).answers = items

C20_Witness == \E p \in SeqProcs : Done(p, "saveDraft") /\ Live(req[p].formId) /\ result[p].status = 201 /\ ~AllRequiredAnswered(forms[req[p].formId], req[p].answers)

\* C21: a deleteDraft on a pair that holds a non-deleted draft soft-deletes
\* it and nothing else, after which getDraft returns null; on a pair that
\* holds none it answers NotFound and leaves the store as it was; and a
\* saveDraft on a pair without a non-deleted draft creates a new draft.
C21_DeleteDraft ==
  \A p \in SeqProcs :
    LET f == req[p].formId
        u == req[p].userId
    IN /\ Done(p, "deleteDraft") =>
            IF DraftIdx(pre[p], f, u) = {} THEN result[p] = Res(404, "draft", "") /\ responses = pre[p]
            ELSE /\ result[p].status = 200
                 /\ GetDraft(responses, f, u) = NoDoc
                 /\ responses = [i \in 1..Len(pre[p]) |-> IF i \in DraftIdx(pre[p], f, u) THEN [pre[p][i] EXCEPT !.deleted = TRUE] ELSE pre[p][i]]
       /\ (Done(p, "saveDraft") /\ result[p].status \in {200, 201} /\ DraftIdx(pre[p], f, u) = {}) =>
            /\ result[p].status = 201
            /\ responses = Append(pre[p], GetDraft(responses, f, u))
            /\ GetDraft(responses, f, u).answers = req[p].answers.items

C21_Witness == \E p \in SeqProcs : Done(p, "deleteDraft") /\ result[p].status = 200 /\ GetDraft(pre[p], req[p].formId, req[p].userId) # NoDoc /\ GetDraft(responses, req[p].formId, req[p].userId) = NoDoc

\* C22: on a diary form a submit is rejected as answered today only when the
\* pair holds a non-deleted final response submitted today; a draft saved
\* today does not block it.
C22_DraftDoesNotBlock ==
  \A p \in SeqProcs : (Done(p, "submit") /\ forms[req[p].formId].type = "diary" /\ result[p] = Res(400, "diary_today", "")) =>
    FinalsOnDay(pre[p], req[p].formId, req[p].userId, now) # {}

\* the pair's final responses that have been soft-deleted
DeletedFinals(store, f, u) == {i \in 1..Len(store) : store[i].formId = f /\ store[i].userId = u /\ ~store[i].isDraft /\ store[i].deleted}
\* a step taken while no request is running that changes the store is an
\* admin deletion: it sets deleted on one record and keeps every record
AdminOnlyMarks == (Quiet /\ responses' # responses) => \E i \in 1..Len(responses) : ~responses[i].deleted /\ responses' = [responses EXCEPT ![i].deleted = TRUE]
ResubmitAfterDelete ==
  \A p \in SeqProcs :
    LET f == req[p].formId
        u == req[p].userId
    IN (Done(p, "submit") /\ forms[f].type = "form" /\ Live(f) /\ WellFormed(forms[f], req[p].answers) /\ AllRequiredAnswered(forms[f], req[p].answers) /\ DeletedFinals(pre[p], f, u) # {} /\ FinalIdx(pre[p], f, u) = {}) =>
         /\ result[p].status = 201
         /\ Cardinality(FinalIdx(responses, f, u)) = 1
         /\ DeletedFinals(responses, f, u) = DeletedFinals(pre[p], f, u)

\* C25: an admin deletion of a response only sets its deleted flag and
\* removes no record; and once the final response of a pair on a non-diary
\* form has been soft-deleted, the user's next valid submit succeeds and the
\* pair holds exactly one non-deleted final response again.
C25_SoftDeleteThenResubmit == [][AdminOnlyMarks]_vars /\ []ResubmitAfterDelete

C25_Witness == \E p \in SeqProcs : Done(p, "submit") /\ forms[req[p].formId].type = "form" /\ result[p].status = 201 /\ DeletedFinals(pre[p], req[p].formId, req[p].userId) # {} /\ Cardinality(FinalIdx(responses, req[p].formId, req[p].userId)) = 1

\* a form update leaves every stored response as it is
UpdateKeepsResponses == forms' # forms => responses' = responses
\* a well-formed submit that the diary rule does not stop is judged against
\* the required flags the form holds when it runs
JudgedByStoredFlags ==
  \A p \in SeqProcs :
    LET f == req[p].formId
        u == req[p].userId
        form == forms[f]
        missing == RequiredIds(form) \ AnsweredIds(req[p].answers.items)
        today_ == {i \in 1..Len(pre[p]) : pre[p][i].formId = f /\ pre[p][i].userId = u /\ ~pre[p][i].deleted /\ DayStart(pre[p][i].submittedAt) = DayStart(now)}
    IN (Done(p, "submit") /\ Live(f) /\ WellFormed(form, req[p].answers) /\ (form.type = "diary" => today_ = {})) =>
         /\ missing # {} => (result[p].status = 400 /\ result[p].error = "required" /\ result[p].detail \in {QuestionTitle[q] : q \in missing} /\ responses = pre[p])
         /\ missing = {} => IF FinalIdx(pre[p], f, u) # {} THEN result[p].error = "already" /\ responses = pre[p]
                            ELSE result[p].status = 201 /\ SubSeq(responses, 1, Len(pre[p])) = [i \in 1..Len(pre[p]) |-> IF pre[p][i].isDraft /\ pre[p][i].userId = u THEN [pre[p][i] EXCEPT !.deleted = TRUE] ELSE pre[p][i]]

\* C24: a submit is checked against the required flags the form holds when
\* the submit runs, so after an admin update of the flags later submits are
\* judged by the new flags; and the update leaves the responses accepted
\* before it stored and unchanged.
C24_CurrentFlags == [][UpdateKeepsResponses]_vars /\ []JudgedByStoredFlags

C24_Witness ==
  \E p \in SeqProcs :
    LET f == req[p].formId
    IN /\ Done(p, "submit") /\ result[p].error = "required" /\ responses = pre[p]
       /\ RequiredIds(forms[f]) # RequiredIds(InitForm(f, forms[f].type))
       /\ RequiredIds(InitForm(f, forms[f].type)) \subseteq AnsweredIds(req[p].answers.items)
       /\ \E i \in FinalIdx(responses, f, req[p].userId) : ~(RequiredIds(forms[f]) \subseteq AnsweredIds(responses[i].answers))

\* C26: on a diary form the answer of canRespondToday in the state in which
\* a valid submit arrives tells whether that submit is rejected as already
\* answered: true exactly when it is rejected neither as answered today nor
\* as answered at all.
C26_CanRespondAgrees ==
  \A p \in SeqProcs :
    LET f == req[p].formId
        u == req[p].userId
        can == CanRespondView(users, forms, pre[p], f, u, now)
    IN (Done(p, "submit") /\ Live(f) /\ WellFormed(forms[f], req[p].answers) /\ AllRequiredAnswered(forms[f], req[p].answers) /\ can.status = 200) =>
         (can.canRespond <=> result[p].error \notin {"diary_today", "already"})

\* C30: every submit, saveDraft and deleteDraft made with the credential of
\* a soft-deleted user is answered user-not-found and leaves the response
\* store exactly as it was: no response is created, modified or soft-deleted.
C30_DeletedUserFrame ==
  \A p \in SeqProcs : (pc[p] = "done" /\ req[p].op \in Ops /\ users[req[p].userId].deleted) =>
    (result[p] = Res(404, "user", "") /\ responses = pre[p])

C30_Witness == \E p \in SeqProcs : Done(p, "deleteDraft") /\ users[req[p].userId].deleted /\ DraftIdx(pre[p], req[p].formId, req[p].userId) # {} /\ result[p] = Res(404, "user", "") /\ responses = pre[p]

C27_ExportCount == (view.op = "export" /\ view.status = 200) => view.totalResponses = Len(view.data)

\* the same accounts with other names and emails for the anonymous ones
Renamed(us) == [u \in DOMAIN us |-> IF us[u].anonymous THEN [us[u] EXCEPT !.name = <<"another name">>, !.email = <<"another mail">>] ELSE us[u]]

\* C28: no result a teacher_analyst receives depends on the name or email of
\* an anonymous respondent: the response listing, the respondents listing,
\* the raw responses of a form and the export are the same in the state
\* that differs only in those names and emails.
C28_AnonymousHidden ==
  /\ view.op = "analystsAll" => view = AnalystsAllView(Renamed(users), forms, responses)
  /\ view.op = "respondents" => view = RespondentsView(Renamed(users), forms, responses, view.formId)
  /\ view.op = "responses" => view = FormResponsesView(Renamed(users), forms, responses, view.formId)
  /\ view.op = "export" => view = ExportView(Renamed(users), forms, responses, view.formId)

\* the accounts without the one that has the email
Unregistered(us, e) == SelectSeq(us, LAMBDA a : a.email # e)

\* C29: for a well-formed email the status and body forgot-password answers
\* with when a user has the email are those it answers with when no user
\* has it.
C29_ForgotPasswordSilent ==
  (view.op = "forgotPassword" /\ EmailRegexTest(view.email)) =>
    \A mailed \in BOOLEAN : view.answer = ForgotAnswer(Unregistered(users, view.email), view.email, mailed)

====
